---- MODULE Spec2Model ----
(***************************************************************************)
(* Model of code/metrics.py of RESCUE: the seven metric functions, the     *)
(* single-quantile aggregator compute_metrics_for_specified_tau, the       *)
(* multi-quantile aggregator compute_metrics_for_all_taus and the crossing *)
(* detector n_crossings.                                                   *)
(*                                                                         *)
(* Numbers.  Series values are integers.  A scalar result is an exact      *)
(* fraction <<n, d>> in lowest terms with d > 0; NaN (numpy's 0/0, the     *)
(* mean of an empty slice) is <<0, 0>>; the placeholder "" that the        *)
(* aggregator writes into a fresh column is <<0, -1>>.  A quantile level   *)
(* is a fraction too: 0.975 is <<39, 40>>.  Floating point rounding is not *)
(* modelled.                                                               *)
(*                                                                         *)
(* Tables.  A DataFrame of metrics is [kind, cols, cell]: cols is the      *)
(* column order, cell maps a column key to its metric column.  A per-fold  *)
(* table has keys <<tau, fold>>, an averaged one has keys tau.  None is    *)
(* the table of kind "None".                                               *)
(***************************************************************************)
EXTENDS Integers, Sequences, FiniteSets

VARIABLES
    y_true,            \* observed series (values)
    index,             \* the timestamps of every series, in hours
    pred_trainval,     \* Prediction Table: <<tau, fold>> -> series
    pinball_defaults,  \* pinball_loss.__defaults__[0]
    df_before,         \* content of the caller's df object when the last call began
    df_arg,            \* content of that same object when the last call ended
    tau_arg,           \* tau of the last aggregator call
    dropped,           \* column keys the caller had dropped from the Prediction Table
    result,            \* table returned by the last call, None when it raised
    raised,            \* exception of the last call, "none" when it returned
    op,                \* which operation ran last
    y_pred,            \* metric-level runs: the predicted series
    metric_value,      \* metric-level runs: the value returned
    crossings          \* n_crossings: the table returned

vars == <<y_true, index, pred_trainval, pinball_defaults, df_before, df_arg,
          tau_arg, dropped, result, raised, op, y_pred, metric_value,
          crossings>>

----------------------------------------------------------------------------
(* Bounds of the model *)

MaxLen == 2

MaxVal == 1

MaxGap == 2

MaxFolds == 2

(* Program constants *)

NumFolds == 10

DefaultTau == <<39, 40>>

TauLevels == {<<1, 2>>, <<19, 20>>, <<39, 40>>}

Folds == 0 .. (NumFolds - 1)

NoTau == <<0, 0>>

NaN == <<0, 0>>

EmptyCell == <<0, -1>>

metrics ==
    <<"coverage", "requirement", "exceeding", "closeness", "max_exceeding",
      "reserve_ramp_rate", "pinball_loss">>

MetricNames == {metrics[i] : i \in DOMAIN metrics}

----------------------------------------------------------------------------
(* Exact arithmetic *)

Abs(x) == IF x < 0 THEN -x ELSE x

Max2(a, b) == IF a >= b THEN a ELSE b

RECURSIVE GCD(_, _)
GCD(a, b) == IF b = 0 THEN a ELSE GCD(b, a % b)

\* n / d as a value: NaN for 0/0 (d is never 0 with n # 0 here).
Frac(n, d) ==
    IF d = 0 THEN NaN
    ELSE LET g == GCD(Abs(n), Abs(d))
             s == IF d < 0 THEN -1 ELSE 1
         IN  <<(s * n) \div g, (s * d) \div g>>

IsNaN(v) == v[2] = 0

FracAdd(a, b) ==
    IF IsNaN(a) \/ IsNaN(b) THEN NaN
    ELSE Frac(a[1] * b[2] + b[1] * a[2], a[2] * b[2])

FracLess(a, b) == a[1] * b[2] < b[1] * a[2]

RECURSIVE SumSeq(_)
SumSeq(s) == IF s = <<>> THEN 0 ELSE Head(s) + SumSeq(Tail(s))

RECURSIVE FracSumSeq(_)
FracSumSeq(s) == IF s = <<>> THEN <<0, 1>> ELSE FracAdd(Head(s), FracSumSeq(Tail(s)))

RECURSIVE MaxSeq(_)
MaxSeq(s) == IF Len(s) = 1 THEN s[1] ELSE Max2(Head(s), MaxSeq(Tail(s)))

\* np.mean of an integer array: NaN when the array is empty.
Mean(s) == Frac(SumSeq(s), Len(s))

\* np.mean of an array of fractions.
FracMean(s) ==
    LET t == FracSumSeq(s)
    IN  IF Len(s) = 0 THEN NaN ELSE Frac(t[1], t[2] * Len(s))

----------------------------------------------------------------------------
(* Metric functions *)

coverage(yt, yp) ==
    Mean([i \in DOMAIN yp |-> IF yt[i] <= yp[i] THEN 1 ELSE 0])

requirement(yt, yp) == Mean(yp)

exceeding(yt, yp) ==
    Mean(SelectSeq([i \in DOMAIN yp |-> IF yt[i] > yp[i] THEN yt[i] - yp[i] ELSE 0],
                   LAMBDA x : x > 0))

closeness(yt, yp) == Mean([i \in DOMAIN yp |-> Abs(yt[i] - yp[i])])

\* np.max raises ValueError on an empty array; callers test Len first.
max_exceeding(yt, yp) == Frac(MaxSeq([i \in DOMAIN yp |-> yt[i] - yp[i]]), 1)

\* The time steps come from the series' own index (the variable index, shared
\* by every series of a run); no length test: the mean of an empty slice is NaN.
reserve_ramp_rate(yt, yp) ==
    FracMean([i \in 1 .. (Len(yp) - 1) |->
                  Frac(Abs(yp[i + 1] - yp[i]), index[i + 1] - index[i])])

\* Variant of pinball_loss that drops the max and keeps the under-forecast term.
pinball_loss_nomax(yt, yp, tau) ==
    Frac(SumSeq([i \in DOMAIN yp |-> tau[1] * (yt[i] - yp[i])]), tau[2] * Len(yp))

pinball_loss(yt, yp, tau) ==
    Frac(SumSeq([i \in DOMAIN yp |->
                    Max2((tau[2] - tau[1]) * (yp[i] - yt[i]),
                         tau[1] * (yt[i] - yp[i]))]),
         tau[2] * Len(yp))

----------------------------------------------------------------------------
(* Tables *)

None == [kind |-> "None", cols |-> <<>>, cell |-> <<>>]

\* pd.DataFrame() indexed by the metric names: no column yet.
NewDataFrame == [kind |-> "PerFold", cols |-> <<>>, cell |-> <<>>]

Keys(df) == DOMAIN df.cell

\* df[key] = "": a new column of placeholders, appended unless the key exists.
InsertColumn(df, key) ==
    [kind |-> df.kind,
     cols |-> IF key \in Keys(df) THEN df.cols ELSE Append(df.cols, key),
     cell |-> [k \in Keys(df) \cup {key} |->
                  IF k = key THEN [m \in MetricNames |-> EmptyCell] ELSE df.cell[k]]]

\* df[key][name] = v, the chained assignment writing through to df.
SetCell(df, key, name, v) ==
    [df EXCEPT !.cell[key][name] = v]

\* metric(y_true, y_pred): pinball_loss is called without tau and so reads
\* its current default; nothing else takes a parameter.
CallMetric(name, yt, yp, defaults) ==
    CASE name = "coverage" -> coverage(yt, yp)
      [] name = "requirement" -> requirement(yt, yp)
      [] name = "exceeding" -> exceeding(yt, yp)
      [] name = "closeness" -> closeness(yt, yp)
      [] name = "max_exceeding" -> max_exceeding(yt, yp)
      [] name = "reserve_ramp_rate" -> reserve_ramp_rate(yt, yp)
      [] name = "pinball_loss" -> pinball_loss(yt, yp, defaults)

\* for metric in metrics: df[(tau, CV)][metric.__name__] = metric(y_true, y_pred)
RECURSIVE FillColumn(_, _, _, _, _, _)
FillColumn(df, key, yt, yp, defaults, i) ==
    IF i > Len(metrics) THEN df
    ELSE FillColumn(SetCell(df, key, metrics[i], CallMetric(metrics[i], yt, yp, defaults)),
                    key, yt, yp, defaults, i + 1)

\* Variant of BindTau that leaves the default of pinball_loss alone.
BindTau_keep(defaults, tau) == defaults

\* pinball_loss.__defaults__ = (tau,)
BindTau(defaults, tau) == tau

\* Variant of FoldStep that creates the column before it looks the series up.
FoldStep_column_first(df, pred, yt, defaults, key) ==
    IF key \in DOMAIN pred
    THEN [df |-> FillColumn(InsertColumn(df, key), key, yt, pred[key], defaults, 1),
          raised |-> "none"]
    ELSE [df |-> InsertColumn(df, key), raised |-> "KeyError"]

\* Variant of FoldStep that overwrites the table with the new column alone.
FoldStep_forget(df, pred, yt, defaults, key) ==
    IF key \in DOMAIN pred
    THEN [df |-> FillColumn(InsertColumn([df EXCEPT !.cols = <<>>, !.cell = <<>>], key),
                            key, yt, pred[key], defaults, 1),
          raised |-> "none"]
    ELSE [df |-> df, raised |-> "KeyError"]

\* One pass of the fold loop: the lookup pred_trainval[(tau, CV)] raises
\* KeyError before the column is created.
FoldStep(df, pred, yt, defaults, key) ==
    IF key \in DOMAIN pred
    THEN [df |-> FillColumn(InsertColumn(df, key), key, yt, pred[key], defaults, 1),
          raised |-> "none"]
    ELSE [df |-> df, raised |-> "KeyError"]

\* for j, CV in enumerate(CV_folds): stops at the first fold that raises.
RECURSIVE FoldLoop(_, _, _, _, _, _)
FoldLoop(df, pred, yt, defaults, tau, CV) ==
    IF CV >= NumFolds THEN [df |-> df, raised |-> "none"]
    ELSE LET r == FoldStep(df, pred, yt, defaults, <<tau, CV>>)
         IN  IF r.raised # "none" THEN r
             ELSE FoldLoop(r.df, pred, yt, defaults, tau, CV + 1)

\* df.T.set_index(MultiIndex.from_tuples(...)).T: a new object, the columns
\* relabelled with the two-level key they already carry, the cells as they are.
Reformat(df) == [kind |-> "PerFold", cols |-> df.cols, cell |-> df.cell]

\* Variant of compute_metrics_for_specified_tau that binds tau only after the
\* fold loop, so that the loop runs with the tau of the call before it.
compute_metrics_for_specified_tau_late(defaults, yt, pred, df, tau) ==
    LET r == FoldLoop(IF df.kind = "None" THEN NewDataFrame ELSE df, pred, yt, defaults,
                      tau, 0)
    IN  [defaults |-> BindTau(defaults, tau),
         df |-> IF df.kind = "None" THEN None ELSE r.df,
         ret |-> IF r.raised = "none" THEN Reformat(r.df) ELSE None,
         raised |-> r.raised]

\* The call as a step on the program state it touches: the default of
\* pinball_loss, the caller's df object (extended in place, fold after fold,
\* also when the loop raises) and the returned table.  A df of None is
\* replaced by a local DataFrame the caller never sees.
compute_metrics_for_specified_tau(defaults, yt, pred, df, tau) ==
    LET d == BindTau(defaults, tau)
        r == FoldLoop(IF df.kind = "None" THEN NewDataFrame ELSE df, pred, yt, d, tau, 0)
    IN  [defaults |-> d,
         df |-> IF df.kind = "None" THEN None ELSE r.df,
         ret |-> IF r.raised = "none" THEN Reformat(r.df) ELSE None,
         raised |-> r.raised]

----------------------------------------------------------------------------
(* Multi-quantile aggregator *)

MinTau(S) == CHOOSE t \in S : \A u \in S : ~FracLess(u, t)

RECURSIVE SortedTaus(_)
SortedTaus(S) ==
    IF S = {} THEN <<>> ELSE <<MinTau(S)>> \o SortedTaus(S \ {MinTau(S)})

\* pred_trainval.columns.levels[0]: the distinct tau values, ascending.
Levels0(pred) == SortedTaus({k[1] : k \in DOMAIN pred})

\* Variant of MeanOfGroup that lets a NaN make the whole mean NaN.
MeanOfGroup_keepna(vals) == FracMean(vals)

\* The mean of one (metric, tau) group of cells: pandas skips NaN (skipna is
\* left at its default), and the mean of no value at all is NaN.
MeanOfGroup(vals) == FracMean(SelectSeq(vals, LAMBDA v : ~IsNaN(v)))

\* Column keys of df whose first level is tau, in column order.
GroupOf(df, tau) == SelectSeq(df.cols, LAMBDA k : k[1] = tau)

\* df.astype('float').mean(axis=1, level=0)
MeanByLevel0(df) ==
    LET taus == {k[1] : k \in Keys(df)}
    IN  [kind |-> "Averaged",
         cols |-> SortedTaus(taus),
         cell |-> [t \in taus |->
                     [m \in MetricNames |->
                         MeanOfGroup([i \in DOMAIN GroupOf(df, t) |->
                                         df.cell[GroupOf(df, t)[i]][m]])]]]

\* for tau in levels[0]: metrics_value_df = compute_metrics_for_specified_tau(...)
RECURSIVE TauLoop(_, _, _, _, _)
TauLoop(defaults, yt, pred, df, taus) ==
    IF taus = <<>> THEN [defaults |-> defaults, ret |-> df, raised |-> "none"]
    ELSE LET r == compute_metrics_for_specified_tau(defaults, yt, pred, df, Head(taus))
         IN  IF r.raised # "none"
             THEN [defaults |-> r.defaults, ret |-> None, raised |-> r.raised]
             ELSE TauLoop(r.defaults, yt, pred, r.ret, Tail(taus))

compute_metrics_for_all_taus(defaults, yt, pred, avg_across_folds) ==
    LET r == TauLoop(defaults, yt, pred, None, Levels0(pred))
    IN  IF r.raised = "none" /\ avg_across_folds
        THEN [r EXCEPT !.ret = MeanByLevel0(r.ret)]
        ELSE r

----------------------------------------------------------------------------
(* Crossing detector *)

NoCrossings == [kind |-> "None", rows |-> {}, cell |-> <<>>]

\* sum(pred_trainval[t1, CV] > pred_trainval[t2, CV])
CrossingCount(pred, t1, t2, CV) ==
    Cardinality({i \in DOMAIN pred[<<t1, CV>>] : pred[<<t1, CV>>][i] > pred[<<t2, CV>>][i]})

\* The keys written under "if t1 < t2".
ValidPairs(tau_arr) ==
    {p \in tau_arr \X tau_arr : FracLess(p[1], p[2])}

\* The crossings dictionary: CV -> (t1, t2) -> count.
CrossingsDict(pred) ==
    LET tau_arr == {k[1] : k \in DOMAIN pred}
        CV_arr == {k[2] : k \in DOMAIN pred}
    IN  [CV \in CV_arr |->
            [p \in ValidPairs(tau_arr) |-> CrossingCount(pred, p[1], p[2], CV)]]

\* pd.DataFrame(crossings), then df.index.rename([two names], inplace=True):
\* with no pair in the dictionary the frame's index is a plain one-level
\* Index, whose name cannot be a list, and rename raises TypeError.
n_crossings(pred) ==
    LET d == CrossingsDict(pred)
        rows == ValidPairs({k[1] : k \in DOMAIN pred})
    IN  IF rows = {}
        THEN [ret |-> NoCrossings, raised |-> "TypeError"]
        ELSE [ret |-> [kind |-> "Crossings", rows |-> rows, cell |-> d],
              raised |-> "none"]

----------------------------------------------------------------------------
(* Inputs *)

Values == 0 .. MaxVal

SeriesOfLen(L) == [1 .. L -> Values]

\* The series of length L that climb by one per step, wrapped into Values.
RampSeries(L) == {[i \in 1 .. L |-> (v + i) % (MaxVal + 1)] : v \in Values}

RECURSIVE IndexFromGaps(_)
IndexFromGaps(g) ==
    IF g = <<>> THEN <<0>>
    ELSE LET h == IndexFromGaps(SubSeq(g, 1, Len(g) - 1))
         IN  Append(h, h[Len(h)] + g[Len(g)])

\* Strictly increasing timestamps (hours), steps of 1 .. MaxGap.
IndexSet(L) ==
    IF L = 0 THEN {<<>>}
    ELSE {IndexFromGaps(g) : g \in [1 .. (L - 1) -> 1 .. MaxGap]}

\* One non-uniform index per length: steps 1, 2, .., MaxGap, 1, 2, ..
SteppedIndex(L) == IndexFromGaps([i \in 1 .. (L - 1) |-> 1 + ((i - 1) % MaxGap)])

Rank(tau) == Cardinality({t \in TauLevels : FracLess(t, tau)})

\* A Prediction Table with every (tau, fold) series present, each series the
\* seed shifted by its quantile's rank and its fold, wrapped into Values.
PredictionTable(seed, taus, folds) ==
    [k \in taus \X folds |->
        [i \in DOMAIN seed |-> (seed[i] + Rank(k[1]) + k[2]) % (MaxVal + 1)]]

\* pred_trainval.drop(columns=keys)
Drop(pred, keys) == [k \in (DOMAIN pred) \ keys |-> pred[k]]

AggTaus == {<<19, 20>>, <<39, 40>>}

----------------------------------------------------------------------------
(* Aggregation runs: a caller holding one Prediction Table calls the two   *)
(* aggregators, threading the table it got back or starting from None.  An *)
(* exception is not caught: it ends the run.                               *)

Init ==
    \E L \in 1 .. MaxLen :
      \E obs \in SeriesOfLen(L), seed \in RampSeries(L) :
        /\ y_true = obs
        /\ index = SteppedIndex(L)
        /\ pred_trainval = PredictionTable(seed, AggTaus, Folds)
        /\ pinball_defaults = DefaultTau
        /\ df_before = None
        /\ df_arg = None
        /\ tau_arg = NoTau
        /\ dropped = {}
        /\ result = None
        /\ raised = "none"
        /\ op = "init"
        /\ y_pred = <<>>
        /\ metric_value = NaN
        /\ crossings = NoCrossings

\* df = compute_metrics_for_specified_tau(y_true, pred, df=df, tau=tau), on
\* the table as it is or with one fold of tau dropped from it.
SpecifiedTau ==
    /\ raised = "none"
    /\ \E df \in {None} \cup (IF result.kind = "PerFold" THEN {result} ELSE {}),
       tau \in TauLevels :
        \E keys \in {{}} \cup {{<<tau, CV>>} : CV \in Folds} :
          \E r \in {compute_metrics_for_specified_tau(
                       pinball_defaults, y_true, Drop(pred_trainval, keys), df, tau)} :
              /\ pinball_defaults' = r.defaults
              /\ df_before' = df
              /\ df_arg' = r.df
              /\ tau_arg' = tau
              /\ dropped' = keys
              /\ result' = r.ret
              /\ raised' = r.raised
              /\ op' = "specified_tau"
              /\ UNCHANGED <<y_true, index, pred_trainval, y_pred, metric_value,
                             crossings>>

\* compute_metrics_for_all_taus(y_true, pred_trainval, avg_across_folds)
AllTaus ==
    /\ raised = "none"
    /\ \E avg \in BOOLEAN :
      \E r \in {compute_metrics_for_all_taus(pinball_defaults, y_true, pred_trainval,
                                                avg)} :
          /\ pinball_defaults' = r.defaults
          /\ df_before' = None
          /\ df_arg' = None
          /\ tau_arg' = NoTau
          /\ dropped' = {}
          /\ result' = r.ret
          /\ raised' = r.raised
          /\ op' = IF avg THEN "all_taus_avg" ELSE "all_taus"
          /\ UNCHANGED <<y_true, index, pred_trainval, y_pred, metric_value, crossings>>

Next == SpecifiedTau \/ AllTaus

Spec == Init /\ [][Next]_vars

----------------------------------------------------------------------------
(* Metric runs: one metric function applied to one pair of series *)

InitMetrics ==
    \E L \in 0 .. MaxLen :
      \E obs \in SeriesOfLen(L), p \in SeriesOfLen(L), idx \in IndexSet(L) :
        /\ y_true = obs
        /\ y_pred = p
        /\ index = idx
        /\ pred_trainval = <<>>
        /\ pinball_defaults = DefaultTau
        /\ df_before = None
        /\ df_arg = None
        /\ tau_arg = NoTau
        /\ dropped = {}
        /\ result = None
        /\ raised = "none"
        /\ op = "init"
        /\ metric_value = NaN
        /\ crossings = NoCrossings

\* metric(y_true, y_pred), pinball_loss with tau or without one.
MetricCall ==
    /\ op = "init"
    /\ \E name \in MetricNames, tau \in TauLevels \cup {NoTau} :
         /\ tau # NoTau => name = "pinball_loss"
         /\ op' = name
         /\ tau_arg' = tau
         /\ IF name = "max_exceeding" /\ Len(y_pred) = 0
            THEN raised' = "ValueError" /\ metric_value' = NaN
            ELSE /\ raised' = "none"
                 /\ metric_value' =
                        CallMetric(name, y_true, y_pred,
                                   IF tau = NoTau THEN pinball_defaults ELSE tau)
    /\ UNCHANGED <<y_true, y_pred, index, pred_trainval, pinball_defaults, df_before,
                   df_arg, dropped, result, crossings>>

NextMetrics == MetricCall

SpecMetrics == InitMetrics /\ [][NextMetrics]_vars

----------------------------------------------------------------------------
(* Crossing runs: n_crossings applied to one Prediction Table *)

InitCross ==
    \E L \in 1 .. MaxLen, m \in 1 .. MaxFolds :
      \E seed \in SeriesOfLen(L), taus \in (SUBSET TauLevels) \ {{}} :
        /\ y_true = seed
        /\ index = SteppedIndex(L)
        /\ pred_trainval = PredictionTable(seed, taus, 0 .. (m - 1))
        /\ pinball_defaults = DefaultTau
        /\ df_before = None
        /\ df_arg = None
        /\ tau_arg = NoTau
        /\ dropped = {}
        /\ result = None
        /\ raised = "none"
        /\ op = "init"
        /\ y_pred = <<>>
        /\ metric_value = NaN
        /\ crossings = NoCrossings

NCrossings ==
    /\ op = "init"
    /\ LET r == n_crossings(pred_trainval)
       IN  /\ crossings' = r.ret
           /\ raised' = r.raised
    /\ op' = "n_crossings"
    /\ UNCHANGED <<y_true, index, pred_trainval, pinball_defaults, df_before, df_arg,
                   tau_arg, dropped, result, y_pred, metric_value>>

NextCross == NCrossings

SpecCross == InitCross /\ [][NextCross]_vars

----------------------------------------------------------------------------
(* Properties *)

TausOf(df) == {k[1] : k \in Keys(df)}

NewKeys(tau) == {<<tau, CV>> : CV \in Folds}

\* The Prediction Table the last aggregator call was given.
PredArg == Drop(pred_trainval, dropped)

ExtendedExistingTable ==
    /\ op = "specified_tau"
    /\ raised = "none"
    /\ df_before.kind = "PerFold"
    /\ tau_arg \notin TausOf(df_before)

\* C1: a call that extends an existing table T with a tau that has no column
\* in T returns a table holding every column of T with the values it had
\* before the call, plus exactly the ten columns (tau, 0) .. (tau, 9).
C1_ExtensionKeepsColumns ==
    ExtendedExistingTable =>
        /\ Keys(result) = Keys(df_before) \cup NewKeys(tau_arg)
        /\ Cardinality(Keys(result) \ Keys(df_before)) = NumFolds
        /\ \A k \in Keys(df_before) : result.cell[k] = df_before.cell[k]

C1_Witness ==
    /\ ExtendedExistingTable
    /\ Cardinality(Keys(df_before)) = NumFolds
    /\ \E k \in Keys(df_before), m \in MetricNames : df_before.cell[k][m][1] # 0

\* C2: after any sequence of aggregator calls, pinball_loss called without
\* tau still evaluates the loss at the default tau = 0.975.
C2_PinballDefaultUnchanged ==
    \A k \in DOMAIN pred_trainval :
        CallMetric("pinball_loss", y_true, pred_trainval[k], pinball_defaults)
            = pinball_loss(y_true, pred_trainval[k], DefaultTau)

\* C3: in the per-fold table of compute_metrics_for_all_taus every
\* (tau, fold) column of the Prediction Table is present and its pinball_loss
\* cell is the pinball loss of (observed, prediction(tau, fold)) at that
\* column's own tau.
C3_PinballAtOwnTau ==
    (op = "all_taus" /\ raised = "none") =>
        /\ Keys(result) = DOMAIN pred_trainval
        /\ \A k \in DOMAIN pred_trainval :
              result.cell[k]["pinball_loss"] = pinball_loss(y_true, pred_trainval[k], k[1])

C3_Witness ==
    /\ op = "all_taus"
    /\ raised = "none"
    /\ \E k \in Keys(result) :
          /\ k[1] # DefaultTau
          /\ result.cell[k]["pinball_loss"] # pinball_loss(y_true, pred_trainval[k], DefaultTau)
    /\ \E k \in Keys(result) :
          /\ k[1] = DefaultTau
          /\ result.cell[k]["pinball_loss"] # pinball_loss(y_true, pred_trainval[k], <<19, 20>>)

\* The per-fold table compute_metrics_for_all_taus returns for the same inputs.
PerFoldTable ==
    compute_metrics_for_all_taus(pinball_defaults, y_true, pred_trainval, FALSE).ret

AveragedCase == op = "all_taus_avg" /\ raised = "none"

\* Folds whose cell of metric m at tau is a number in table t.
DefinedFolds(t, tau, m) == {CV \in Folds : ~IsNaN(t.cell[<<tau, CV>>][m])}

RECURSIVE SumOverFolds(_, _, _, _)
SumOverFolds(t, tau, m, S) ==
    IF S = {} THEN <<0, 1>>
    ELSE LET CV == CHOOSE x \in S : TRUE
         IN  FracAdd(t.cell[<<tau, CV>>][m], SumOverFolds(t, tau, m, S \ {CV}))

\* v = s / n
IsQuotient(v, s, n) == IF IsNaN(s) \/ n = 0 THEN IsNaN(v) ELSE v = Frac(s[1], s[2] * n)

\* C5 as stated: with avg_across_folds=True the table has one column per
\* distinct tau and every value is the sum of the ten per-fold values divided
\* by ten, a NaN among the ten included.
C5_MeanOfTenFolds ==
    AveragedCase =>
        \A t \in {PerFoldTable} :
            /\ Keys(result) = TausOf(t)
            /\ \A tau \in TausOf(t), m \in MetricNames :
                  IsQuotient(result.cell[tau][m], SumOverFolds(t, tau, m, Folds), NumFolds)

\* C5 as amended: with avg_across_folds=True the table has one column per
\* distinct tau and every value is the mean of the per-fold values that are
\* not NaN (their sum divided by their number, which is the sum of the ten
\* divided by ten when none is NaN), and NaN when all ten are NaN.
C5_MeanOfDefinedFolds ==
    AveragedCase =>
        \A t \in {PerFoldTable} :
            /\ Keys(result) = TausOf(t)
            /\ \A tau \in TausOf(t), m \in MetricNames :
                  IsQuotient(result.cell[tau][m],
                             SumOverFolds(t, tau, m, DefinedFolds(t, tau, m)),
                             Cardinality(DefinedFolds(t, tau, m)))

C5_Witness ==
    /\ AveragedCase
    /\ \E t \in {PerFoldTable} :
          /\ \E tau \in TausOf(t) :
                /\ DefinedFolds(t, tau, "exceeding") # {}
                /\ DefinedFolds(t, tau, "exceeding") # Folds
                /\ ~IsNaN(result.cell[tau]["exceeding"])
          /\ \E tau \in TausOf(t) :
                \E CV \in Folds :
                    t.cell[<<tau, CV>>]["coverage"] # result.cell[tau]["coverage"]

\* The table got by aggregating b and then a, starting from None.
OtherOrder(a, b) ==
    LET first == compute_metrics_for_specified_tau(pinball_defaults, y_true, pred_trainval,
                                                   None, b)
    IN  compute_metrics_for_specified_tau(first.defaults, y_true, pred_trainval,
                                          first.ret, a).ret

\* The last call aggregated tau_arg into a table that held one other tau.
AggregatedTwo ==
    /\ op = "specified_tau"
    /\ raised = "none"
    /\ df_before.kind = "PerFold"
    /\ Cardinality(TausOf(df_before)) = 1
    /\ tau_arg \notin TausOf(df_before)

\* C6: aggregating a and then b into the same table gives, in every metric
\* row and every (tau, fold) column, the value that aggregating b and then a
\* gives; only the column order may differ.
C6_OrderIndependent ==
    AggregatedTwo =>
        \A a \in TausOf(df_before) :
            \A other \in {OtherOrder(a, tau_arg)} :
                /\ Keys(other) = Keys(result)
                /\ \A k \in Keys(result) : other.cell[k] = result.cell[k]

C6_Witness ==
    /\ AggregatedTwo
    /\ \A a \in TausOf(df_before) :
          \A other \in {OtherOrder(a, tau_arg)} :
              /\ other.cols # result.cols
              /\ \E CV \in Folds :
                    result.cell[<<a, CV>>]["pinball_loss"]
                        # pinball_loss(y_true, pred_trainval[<<a, CV>>], tau_arg)

\* The last call was given a Prediction Table that lacks a fold of its tau.
LacksFold ==
    /\ op = "specified_tau"
    /\ \E CV \in Folds : <<tau_arg, CV>> \notin DOMAIN PredArg

FirstMissing == CHOOSE CV \in Folds :
    /\ <<tau_arg, CV>> \notin DOMAIN PredArg
    /\ \A c \in 0 .. (CV - 1) : <<tau_arg, c>> \in DOMAIN PredArg

\* C7: when the Prediction Table lacks (tau, fold) for some fold, the call
\* raises the lookup's KeyError and returns no table; no placeholder cell is
\* left behind and no column is made for the missing fold or for a later one.
C7_MissingFoldAborts ==
    LacksFold =>
        /\ raised = "KeyError"
        /\ result = None
        /\ \A k \in Keys(df_arg), m \in MetricNames : df_arg.cell[k][m] # EmptyCell
        /\ \A CV \in FirstMissing .. (NumFolds - 1) :
              <<tau_arg, CV>> \in Keys(df_arg) => <<tau_arg, CV>> \in Keys(df_before)

C7_Witness ==
    /\ LacksFold
    /\ df_before.kind = "PerFold"
    /\ tau_arg \notin TausOf(df_before)
    /\ FirstMissing = 3
    /\ raised = "KeyError"

\* C10: a call that is given an existing table leaves the caller's table
\* object as it was, columns and cells, whether it returns or raises.
C10_CallerTableUntouched ==
    (op = "specified_tau" /\ df_before.kind = "PerFold") => df_arg = df_before

\* C8: reserve_ramp_rate applied to a predicted series with fewer than 2
\* points fails with an InsufficientData error and returns no value.
C8_RampRateNeedsTwoPoints ==
    (op = "reserve_ramp_rate" /\ Len(y_pred) < 2) => raised = "InsufficientData"

HalfOf(v) == Frac(v[1], 2 * v[2])

MedianPinballCase ==
    /\ op = "pinball_loss"
    /\ tau_arg = <<1, 2>>
    /\ raised = "none"
    /\ Len(y_pred) >= 1

\* C9: for aligned series of length >= 1, pinball_loss at tau = 0.5 is half
\* of closeness, the mean absolute difference.
C9_MedianPinballIsHalfCloseness ==
    MedianPinballCase => metric_value = HalfOf(closeness(y_true, y_pred))

C9_Witness ==
    /\ MedianPinballCase
    /\ Len(y_pred) = MaxLen
    /\ \E i \in DOMAIN y_pred : y_true[i] > y_pred[i]
    /\ \E i \in DOMAIN y_pred : y_true[i] < y_pred[i]
    /\ metric_value[1] > 0

CrossTaus == {k[1] : k \in DOMAIN pred_trainval}

CrossFolds == {k[2] : k \in DOMAIN pred_trainval}

\* The table n_crossings is to return: pairs (t1, t2) with t1 < t2 against
\* the folds, each entry the number of timestamps with
\* prediction(t1, fold) > prediction(t2, fold).
ExpectedCrossings ==
    /\ crossings.kind = "Crossings"
    /\ crossings.rows = {p \in CrossTaus \X CrossTaus : FracLess(p[1], p[2])}
    /\ 2 * Cardinality(crossings.rows) = Cardinality(CrossTaus) * (Cardinality(CrossTaus) - 1)
    /\ DOMAIN crossings.cell = CrossFolds
    /\ \A CV \in CrossFolds :
          /\ DOMAIN crossings.cell[CV] = crossings.rows
          /\ \A p \in crossings.rows :
                LET P1 == pred_trainval[<<p[1], CV>>]
                    P2 == pred_trainval[<<p[2], CV>>]
                IN  /\ crossings.cell[CV][p] = Cardinality({i \in DOMAIN P1 : P1[i] > P2[i]})
                    /\ (\A i \in DOMAIN P1 : P1[i] <= P2[i]) => crossings.cell[CV][p] = 0

\* C4: for every Prediction Table with n >= 1 quantile levels and m >= 1
\* folds n_crossings returns the table of strict crossing counts over the
\* n(n-1)/2 pairs t1 < t2 and the m folds, an empty table when n = 1.
C4_CrossingTable ==
    op = "n_crossings" =>
        /\ raised = "none"
        /\ IF Cardinality(CrossTaus) = 1
           THEN crossings.kind = "Crossings" /\ crossings.rows = {}
           ELSE ExpectedCrossings

\* What holds of n_crossings: the table of C4 for two or more quantile
\* levels, TypeError for one.
CrossingTableForTwoOrMore ==
    op = "n_crossings" =>
        IF Cardinality(CrossTaus) = 1
        THEN raised = "TypeError" /\ crossings = NoCrossings
        ELSE raised = "none" /\ ExpectedCrossings

====
